---- MODULE Spec2Model ----
(***************************************************************************)
(* OrderedCounter (src/OrderedCounter.py): a Counter that remembers the    *)
(* order in which elements are first encountered, with the multiset        *)
(* operators + - | & ^ and the unary + and -.                              *)
(*                                                                         *)
(* A counter's content is the sequence of its (key, count) entries in      *)
(* iteration order.  Objects live in a heap indexed by references, so that *)
(* aliasing (an operator returning one of its operands) is expressible.    *)
(***************************************************************************)
EXTENDS Integers, Sequences, FiniteSets, TLC

VARIABLES heap, ret, call, firstSeen, seenSinceAbsent

vars == <<heap, ret, call, firstSeen, seenSinceAbsent>>

(* ------------------------------ bounds --------------------------------- *)

\* Largest count of a drawn input entry; the smallest is -1.
MaxCount == 2

\* Longest string a counter is constructed from.
MaxSrcLen == 3

Keys == {"a", "b", "c"}

\* Keys in alphabetical order.
KeyOrder == <<"a", "b", "c">>

Counts == (0 - 1)..MaxCount

(* ------------------- dict / OrderedDict / Counter ---------------------- *)

\* key in d
Contains(items, k) == \E i \in 1..Len(items) : items[i][1] = k

IndexOf(items, k) == CHOOSE i \in 1..Len(items) : items[i][1] = k

\* Counter.__missing__: the count of a key that is absent is zero.
Missing(k) == 0

\* d[k] on a Counter: the stored count, or __missing__(k).
GetItem(items, k) ==
    IF Contains(items, k) THEN items[IndexOf(items, k)][2] ELSE Missing(k)

\* The entries after a lookup that stores the default, as
\* defaultdict.__missing__ does.
AfterLookupInsert(items, k) ==
    IF Contains(items, k) THEN items ELSE Append(items, <<k, Missing(k)>>)

\* The entries of d after the lookup d[k]: Counter.__missing__ returns zero
\* and stores nothing.
AfterLookup(items, k) == items

\* A store that moves an existing key to the end.
SetItemMoveToEnd(items, k, v) ==
    Append(SelectSeq(items, LAMBDA p : p[1] # k), <<k, v>>)

\* OrderedDict.__setitem__: an existing key keeps its position, a new key is
\* appended at the end.
SetItem(items, k, v) ==
    IF Contains(items, k)
    THEN [items EXCEPT ![IndexOf(items, k)] = <<k, v>>]
    ELSE Append(items, <<k, v>>)

\* Counter.__delitem__: removes the entry; no error when the key is absent.
DelItem(items, k) == SelectSeq(items, LAMBDA p : p[1] # k)

KeysOf(items) == [i \in 1..Len(items) |-> items[i][1]]

(* ------------------------------ objects -------------------------------- *)

Object(type, items) == [type |-> type, items |-> items]

\* self.__class__()
NewCounter == Object("OrderedCounter", <<>>)

\* isinstance(iterable, Mapping)
IsMapping(obj) == obj.type \in {"OrderedCounter", "Counter", "OrderedDict", "dict"}

\* The operand test widened to any dict.
IsCounterOrDict(obj) == obj.type \in {"OrderedCounter", "Counter", "OrderedDict", "dict"}

\* isinstance(other, Counter)
IsCounter(obj) == obj.type \in {"OrderedCounter", "Counter"}

\* The reference of the instance self.__class__() creates.
NewRef == "res"

\* The NotImplemented singleton.
NotImplemented == Object("NotImplementedType", <<>>)

(* ------------------------------ __add__ -------------------------------- *)

\* for elem, count in self.items(): newcount = count + other[elem];
\* if newcount > 0: result[elem] = newcount
RECURSIVE AddSelfLoop(_, _, _, _)
AddSelfLoop(selfItems, i, other, result) ==
    IF i > Len(selfItems)
    THEN [result |-> result, other |-> other]
    ELSE LET elem == selfItems[i][1]
             count == selfItems[i][2]
             newcount == count + GetItem(other, elem)
         IN  AddSelfLoop(selfItems, i + 1, AfterLookup(other, elem),
                         IF newcount > 0 THEN SetItem(result, elem, newcount)
                                         ELSE result)

\* The second loop with the test "elem not in self" left out.
RECURSIVE AddOtherLoopNoSelfTest(_, _, _, _)
AddOtherLoopNoSelfTest(selfItems, otherItems, i, result) ==
    IF i > Len(otherItems)
    THEN result
    ELSE LET elem == otherItems[i][1]
             count == otherItems[i][2]
         IN  AddOtherLoopNoSelfTest(selfItems, otherItems, i + 1,
                                    IF count > 0 THEN SetItem(result, elem, count)
                                                 ELSE result)

\* for elem, count in other.items():
\*     if elem not in self and count > 0: result[elem] = count
RECURSIVE AddOtherLoop(_, _, _, _)
AddOtherLoop(selfItems, otherItems, i, result) ==
    IF i > Len(otherItems)
    THEN result
    ELSE LET elem == otherItems[i][1]
             count == otherItems[i][2]
         IN  AddOtherLoop(selfItems, otherItems, i + 1,
                          IF ~Contains(selfItems, elem) /\ count > 0
                          THEN SetItem(result, elem, count)
                          ELSE result)

\* OrderedCounter.__add__(self, other): the returned object, and the operand
\* as the call leaves it.
Add(self, other) ==
    IF ~IsCounter(other)
    THEN [ret |-> NotImplemented, other |-> other]
    ELSE LET l1 == AddSelfLoop(self.items, 1, other.items, NewCounter.items)
         IN  [ret |-> Object(NewCounter.type,
                             AddOtherLoop(self.items, l1.other, 1, l1.result)),
              other |-> Object(other.type, l1.other)]

(* ------------------------------ __sub__ -------------------------------- *)

\* The first loop with the operands of the difference exchanged.
RECURSIVE SubSelfLoopReversed(_, _, _, _)
SubSelfLoopReversed(selfItems, i, other, result) ==
    IF i > Len(selfItems)
    THEN [result |-> result, other |-> other]
    ELSE LET elem == selfItems[i][1]
             count == selfItems[i][2]
             newcount == GetItem(other, elem) - count
         IN  SubSelfLoopReversed(selfItems, i + 1, AfterLookup(other, elem),
                                 IF newcount > 0 THEN SetItem(result, elem, newcount)
                                                 ELSE result)

\* for elem, count in self.items(): newcount = count - other[elem];
\* if newcount > 0: result[elem] = newcount
RECURSIVE SubSelfLoop(_, _, _, _)
SubSelfLoop(selfItems, i, other, result) ==
    IF i > Len(selfItems)
    THEN [result |-> result, other |-> other]
    ELSE LET elem == selfItems[i][1]
             count == selfItems[i][2]
             newcount == count - GetItem(other, elem)
         IN  SubSelfLoop(selfItems, i + 1, AfterLookup(other, elem),
                         IF newcount > 0 THEN SetItem(result, elem, newcount)
                                         ELSE result)

\* The second loop as __add__ has it: positive counts kept as they are.
RECURSIVE SubOtherLoopPositive(_, _, _, _)
SubOtherLoopPositive(selfItems, otherItems, i, result) ==
    IF i > Len(otherItems)
    THEN result
    ELSE LET elem == otherItems[i][1]
             count == otherItems[i][2]
         IN  SubOtherLoopPositive(selfItems, otherItems, i + 1,
                                  IF ~Contains(selfItems, elem) /\ count > 0
                                  THEN SetItem(result, elem, count)
                                  ELSE result)

\* for elem, count in other.items():
\*     if elem not in self and count < 0: result[elem] = 0 - count
RECURSIVE SubOtherLoop(_, _, _, _)
SubOtherLoop(selfItems, otherItems, i, result) ==
    IF i > Len(otherItems)
    THEN result
    ELSE LET elem == otherItems[i][1]
             count == otherItems[i][2]
         IN  SubOtherLoop(selfItems, otherItems, i + 1,
                          IF ~Contains(selfItems, elem) /\ count < 0
                          THEN SetItem(result, elem, 0 - count)
                          ELSE result)

\* OrderedCounter.__sub__(self, other)
Sub(self, other) ==
    IF ~IsCounter(other)
    THEN [ret |-> NotImplemented, other |-> other]
    ELSE LET l1 == SubSelfLoop(self.items, 1, other.items, NewCounter.items)
         IN  [ret |-> Object(NewCounter.type,
                             SubOtherLoop(self.items, l1.other, 1, l1.result)),
              other |-> Object(other.type, l1.other)]

(* ------------------------------- __or__ -------------------------------- *)

\* The first loop taking the smaller of the two counts.
RECURSIVE OrSelfLoopMin(_, _, _, _)
OrSelfLoopMin(selfItems, i, other, result) ==
    IF i > Len(selfItems)
    THEN [result |-> result, other |-> other]
    ELSE LET elem == selfItems[i][1]
             count == selfItems[i][2]
             other_count == GetItem(other, elem)
             newcount == IF count < other_count THEN count ELSE other_count
         IN  OrSelfLoopMin(selfItems, i + 1, AfterLookup(other, elem),
                           IF newcount > 0 THEN SetItem(result, elem, newcount)
                                           ELSE result)

\* for elem, count in self.items(): other_count = other[elem];
\* newcount = other_count if count < other_count else count;
\* if newcount > 0: result[elem] = newcount
RECURSIVE OrSelfLoop(_, _, _, _)
OrSelfLoop(selfItems, i, other, result) ==
    IF i > Len(selfItems)
    THEN [result |-> result, other |-> other]
    ELSE LET elem == selfItems[i][1]
             count == selfItems[i][2]
             other_count == GetItem(other, elem)
             newcount == IF count < other_count THEN other_count ELSE count
         IN  OrSelfLoop(selfItems, i + 1, AfterLookup(other, elem),
                        IF newcount > 0 THEN SetItem(result, elem, newcount)
                                        ELSE result)

\* for elem, count in other.items():
\*     if elem not in self and count > 0: result[elem] = count
RECURSIVE OrOtherLoop(_, _, _, _)
OrOtherLoop(selfItems, otherItems, i, result) ==
    IF i > Len(otherItems)
    THEN result
    ELSE LET elem == otherItems[i][1]
             count == otherItems[i][2]
         IN  OrOtherLoop(selfItems, otherItems, i + 1,
                         IF ~Contains(selfItems, elem) /\ count > 0
                         THEN SetItem(result, elem, count)
                         ELSE result)

\* OrderedCounter.__or__(self, other)
Or(self, other) ==
    IF ~IsCounter(other)
    THEN [ret |-> NotImplemented, other |-> other]
    ELSE LET l1 == OrSelfLoop(self.items, 1, other.items, NewCounter.items)
         IN  [ret |-> Object(NewCounter.type,
                             OrOtherLoop(self.items, l1.other, 1, l1.result)),
              other |-> Object(other.type, l1.other)]

(* ------------------------------- __and__ ------------------------------- *)

\* The loop taking the larger of the two counts.
RECURSIVE AndSelfLoopMax(_, _, _, _)
AndSelfLoopMax(selfItems, i, other, result) ==
    IF i > Len(selfItems)
    THEN [result |-> result, other |-> other]
    ELSE LET elem == selfItems[i][1]
             count == selfItems[i][2]
             other_count == GetItem(other, elem)
             newcount == IF count < other_count THEN other_count ELSE count
         IN  AndSelfLoopMax(selfItems, i + 1, AfterLookup(other, elem),
                            IF newcount > 0 THEN SetItem(result, elem, newcount)
                                            ELSE result)

\* for elem, count in self.items(): other_count = other[elem];
\* newcount = count if count < other_count else other_count;
\* if newcount > 0: result[elem] = newcount
RECURSIVE AndSelfLoop(_, _, _, _)
AndSelfLoop(selfItems, i, other, result) ==
    IF i > Len(selfItems)
    THEN [result |-> result, other |-> other]
    ELSE LET elem == selfItems[i][1]
             count == selfItems[i][2]
             other_count == GetItem(other, elem)
             newcount == IF count < other_count THEN count ELSE other_count
         IN  AndSelfLoop(selfItems, i + 1, AfterLookup(other, elem),
                         IF newcount > 0 THEN SetItem(result, elem, newcount)
                                         ELSE result)

\* OrderedCounter.__and__(self, other): one loop, over self's entries only.
And(self, other) ==
    IF ~IsCounter(other)
    THEN [ret |-> NotImplemented, other |-> other]
    ELSE LET l1 == AndSelfLoop(self.items, 1, other.items, NewCounter.items)
         IN  [ret |-> Object(NewCounter.type, l1.result),
              other |-> Object(other.type, l1.other)]

(* ------------------------------- __xor__ ------------------------------- *)

\* The symmetric difference as the union of the two differences.
XorByDifferences(self, other) ==
    IF ~IsCounter(other)
    THEN [ret |-> NotImplemented, other |-> other]
    ELSE LET d1 == Sub(self, other)
             d2 == Sub(d1.other, self)
             u  == Or(d1.ret, d2.ret)
         IN  [ret |-> u.ret, other |-> d1.other]

\* OrderedCounter.__xor__(self, other):
\*     self.__or__(other) - self.__and__(other)
\* evaluated left to right; the subtraction is the union's __sub__.
Xor(self, other) ==
    IF ~IsCounter(other)
    THEN [ret |-> NotImplemented, other |-> other]
    ELSE LET u == Or(self, other)
             n == And(self, u.other)
             d == Sub(u.ret, n.ret)
         IN  [ret |-> d.ret, other |-> n.other]

(* --------------------------- __pos__, __neg__ -------------------------- *)

\* for elem, count in self.items(): if count > 0: result[elem] = count
RECURSIVE PosLoop(_, _, _)
PosLoop(selfItems, i, result) ==
    IF i > Len(selfItems)
    THEN result
    ELSE LET elem == selfItems[i][1]
             count == selfItems[i][2]
         IN  PosLoop(selfItems, i + 1,
                     IF count > 0 THEN SetItem(result, elem, count) ELSE result)

\* OrderedCounter.__pos__(self)
Pos(self) == Object(NewCounter.type, PosLoop(self.items, 1, NewCounter.items))

\* for elem, count in self.items(): if count < 0: result[elem] = 0 - count
RECURSIVE NegLoop(_, _, _)
NegLoop(selfItems, i, result) ==
    IF i > Len(selfItems)
    THEN result
    ELSE LET elem == selfItems[i][1]
             count == selfItems[i][2]
         IN  NegLoop(selfItems, i + 1,
                     IF count < 0 THEN SetItem(result, elem, 0 - count) ELSE result)

\* OrderedCounter.__neg__(self)
Neg(self) == Object(NewCounter.type, NegLoop(self.items, 1, NewCounter.items))

(* ------------------- construction and reconstruction ------------------- *)

\* _count_elements(mapping, iterable):
\*     for elem in iterable: mapping[elem] = mapping.get(elem, 0) + 1
RECURSIVE CountElements(_, _, _)
CountElements(items, iterable, i) ==
    IF i > Len(iterable)
    THEN items
    ELSE CountElements(SetItem(items, iterable[i], GetItem(items, iterable[i]) + 1),
                       iterable, i + 1)

\* OrderedDict.update(mapping): for key in mapping: self[key] = mapping[key]
RECURSIVE DictUpdate(_, _, _)
DictUpdate(items, mapping, i) ==
    IF i > Len(mapping)
    THEN items
    ELSE DictUpdate(SetItem(items, mapping[i][1], mapping[i][2]), mapping, i + 1)

\* Counter.update on a counter that already holds entries:
\*     for elem, count in iterable.items(): self[elem] = count + self.get(elem, 0)
RECURSIVE UpdateAddLoop(_, _, _)
UpdateAddLoop(items, mapping, i) ==
    IF i > Len(mapping)
    THEN items
    ELSE UpdateAddLoop(SetItem(items, mapping[i][1],
                               mapping[i][2] + GetItem(items, mapping[i][1])),
                       mapping, i + 1)

\* Counter.update with the mapping branch missing: a mapping is iterated
\* like any other iterable, which yields its keys.
UpdateCountingKeys(items, source) ==
    CountElements(items, IF IsMapping(source) THEN KeysOf(source.items) ELSE source.items, 1)

\* Counter.update(iterable): a mapping's counts are taken over (the empty
\* counter takes the fast path through OrderedDict.update); the elements of
\* any other iterable are counted.
Update(items, source) ==
    IF IsMapping(source)
    THEN IF items # <<>>
         THEN UpdateAddLoop(items, source.items, 1)
         ELSE DictUpdate(items, source.items, 1)
    ELSE CountElements(items, source.items, 1)

\* OrderedCounter(source): Counter.__init__ starts empty and calls update.
Construct(source) == Object(NewCounter.type, Update(NewCounter.items, source))

\* OrderedDict(self): the entries of self in iteration order.
OrderedDictOf(self) == Object("OrderedDict", DictUpdate(<<>>, self.items, 1))

\* OrderedCounter.__reduce__(self): the class and the constructor arguments.
Reduce(self) == [cls |-> self.type, args |-> OrderedDictOf(self)]

\* copy / pickle: the class of __reduce__ called on its arguments.
Reconstruct(reduced) == Construct(reduced.args)

\* OrderedCounter.__repr__(self): '%s(%r)' of the class name and
\* OrderedDict(self), as the call expression the text spells.
Repr(self) == [callee |-> self.type, argument |-> OrderedDictOf(self)]

\* eval of that text: the named class called on the argument.
Eval(text) == Construct(text.argument)

\* A string: an iterable of one-character keys.
Str(chars) == Object("str", chars)

(* ------------------------------ inputs --------------------------------- *)

\* The entry sequences over distinct keys of ks, in every order.
RECURSIVE ItemSeqs(_)
ItemSeqs(ks) ==
    {<<>>} \cup UNION {{<<<<k, c>>>> \o s : c \in Counts, s \in ItemSeqs(ks \ {k})} : k \in ks}

\* The entry sequences whose keys follow the order of keySeq.
RECURSIVE SortedItemSeqs(_)
SortedItemSeqs(keySeq) ==
    IF keySeq = <<>>
    THEN {<<>>}
    ELSE LET rest == SortedItemSeqs(Tail(keySeq))
         IN  rest \cup {<<<<Head(keySeq), c>>>> \o s : c \in Counts, s \in rest}

\* Left operands: the operators treat keys by equality alone, so self's keys
\* are drawn in alphabetical order; the right operand's come in every order.
SelfCounters == {Object("OrderedCounter", s) : s \in SortedItemSeqs(KeyOrder)}

Counters == {Object("OrderedCounter", s) : s \in ItemSeqs(Keys)}

\* Instances of Counter itself.
PlainCounters ==
    {Object("Counter", <<>>),
     Object("Counter", <<<<"c", 1>>, <<"b", 2>>>>),
     Object("Counter", <<<<"b", 0 - 1>>, <<"a", 1>>, <<"c", 0>>>>)}

\* Operands that are no Counter.
NonCounters ==
    {Object("dict", <<>>), Object("dict", <<<<"a", 1>>, <<"c", 2>>>>),
     Object("OrderedDict", <<<<"b", 1>>>>), Object("list", <<<<"b", 1>>, <<"c", 2>>>>)}

Operands == Counters \cup PlainCounters \cup NonCounters

\* The operand pairs of the docstrings.
DocExamples ==
    {<<Construct(Str(<<"a", "b", "b", "b", "d">>)), Construct(Str(<<"b", "c", "c">>))>>,
     <<Construct(Str(<<"a", "b", "b", "b", "c">>)), Construct(Str(<<"b", "c", "c", "d">>))>>,
     <<Construct(Str(<<"a", "b", "b", "b", "c">>)), Construct(Str(<<"b", "c", "c">>))>>}

(* --------------------------- state machine ----------------------------- *)

BinaryOps == {"add", "sub", "or", "and", "xor"}

UnaryOps == {"pos", "neg"}

\* heap: the objects self and other refer to, and the returned instance if
\* one was built.  ret: what the last call returned (a reference, or
\* "NotImplemented", or "None" before any call).  call: the last call and
\* its arguments as they were when it was made, and whether the returned
\* instance was written to since.  firstSeen: the keys ever
\* written to self, in the order of their first write.  seenSinceAbsent: the
\* keys self holds, in the order of their first write since they were last
\* absent.
NoCall == [op |-> "none", self |-> NewCounter, other |-> NewCounter,
           resultMutated |-> FALSE]

InitWith(s, o) ==
    /\ heap = [r \in {"self", "other"} |-> IF r = "self" THEN s ELSE o]
    /\ ret = "None"
    /\ call = NoCall
    /\ firstSeen = KeysOf(s.items)
    /\ seenSinceAbsent = KeysOf(s.items)

Init == \E p \in (SelfCounters \X Operands) \cup DocExamples : InitWith(p[1], p[2])

\* The call name(self, other) returns r.ret and leaves the operand as r.other:
\* NotImplemented is a singleton, any other result is a new instance.
Returns(name, r) ==
    /\ call' = [op |-> name, self |-> heap["self"], other |-> heap["other"],
                resultMutated |-> FALSE]
    /\ IF r.ret = NotImplemented
       THEN /\ ret' = "NotImplemented"
            /\ heap' = [heap EXCEPT !["other"] = r.other]
       ELSE /\ ret' = NewRef
            /\ heap' = [x \in DOMAIN heap \cup {NewRef} |->
                          IF x = NewRef THEN r.ret
                          ELSE IF x = "other" THEN r.other ELSE heap[x]]
    /\ UNCHANGED <<firstSeen, seenSinceAbsent>>

\* ret = self + other
DoAdd ==
    /\ call.op = "none"
    /\ Returns("add", Add(heap["self"], heap["other"]))

\* ret = self - other
DoSub ==
    /\ call.op = "none"
    /\ Returns("sub", Sub(heap["self"], heap["other"]))

\* ret = self | other
DoOr ==
    /\ call.op = "none"
    /\ Returns("or", Or(heap["self"], heap["other"]))

\* ret = self & other
DoAnd ==
    /\ call.op = "none"
    /\ Returns("and", And(heap["self"], heap["other"]))

\* ret = self ^ other
DoXor ==
    /\ call.op = "none"
    /\ Returns("xor", Xor(heap["self"], heap["other"]))

\* ret = +self
DoPos ==
    /\ call.op = "none"
    /\ Returns("pos", [ret |-> Pos(heap["self"]), other |-> heap["other"]])

\* ret = -self
DoNeg ==
    /\ call.op = "none"
    /\ Returns("neg", [ret |-> Neg(heap["self"]), other |-> heap["other"]])

Next == DoAdd \/ DoSub \/ DoOr \/ DoAnd \/ DoXor

Spec == Init /\ [][Next]_vars

(* ------------- the operators' effect on their operands ----------------- *)

\* ret[k] += 1 on the instance an operator returned.
MutateResult(k) ==
    /\ call.op \in BinaryOps \cup UnaryOps
    /\ ~call.resultMutated
    /\ ret \in DOMAIN heap
    /\ heap' = [heap EXCEPT ![ret].items =
                   SetItem(AfterLookup(@, k), k, GetItem(@, k) + 1)]
    /\ call' = [call EXCEPT !.resultMutated = TRUE]
    /\ UNCHANGED <<ret, firstSeen, seenSinceAbsent>>

FrameCounters == {Object("OrderedCounter", s) : s \in ItemSeqs({"a", "b"})}

InitFrame ==
    \E s \in FrameCounters, o \in FrameCounters \cup PlainCounters \cup NonCounters :
        InitWith(s, o)

NextFrame ==
    \/ DoAdd \/ DoSub \/ DoOr \/ DoAnd \/ DoXor \/ DoPos \/ DoNeg
    \/ \E k \in Keys : MutateResult(k)

SpecFrame == InitFrame /\ [][NextFrame]_vars

(* ---------------- construction, mutation, reconstruction --------------- *)

\* The distinct elements of chars in the order of their first occurrence.
FirstOccurrences(chars) ==
    LET first == SelectSeq([i \in 1..Len(chars) |-> i],
                           LAMBDA i : \A j \in 1..(i - 1) : chars[j] # chars[i])
    IN  [n \in 1..Len(first) |-> chars[first[n]]]

Range(seq) == {seq[i] : i \in 1..Len(seq)}

\* The strings over Keys of length n.
RECURSIVE Strings(_)
Strings(n) ==
    IF n = 0 THEN {<<>>} ELSE {Append(w, k) : w \in Strings(n - 1), k \in Keys}

\* self = OrderedCounter(source); order: source's keys by first occurrence.
InitConstructed(source, order) ==
    /\ heap = [r \in {"self", "other"} |->
                 IF r = "self" THEN Construct(source) ELSE NewCounter]
    /\ ret = "None"
    /\ call = NoCall
    /\ firstSeen = order
    /\ seenSinceAbsent = order

InitOrder ==
    \/ \E n \in 0..MaxSrcLen : \E chars \in Strings(n) :
          InitConstructed(Str(chars), FirstOccurrences(chars))
    \/ \E m \in ItemSeqs(Keys) :
          InitConstructed(Object("OrderedDict", m), KeysOf(m))

\* A write to key k of self, as the two histories record it.
Written(k) ==
    /\ firstSeen' = IF k \in Range(firstSeen) THEN firstSeen ELSE Append(firstSeen, k)
    /\ seenSinceAbsent' = IF k \in Range(seenSinceAbsent) THEN seenSinceAbsent
                          ELSE Append(seenSinceAbsent, k)

\* self[k] += delta
Increment(k, delta) ==
    /\ call.op = "none"
    /\ GetItem(heap["self"].items, k) + delta \in Counts
    /\ heap' = [heap EXCEPT !["self"].items =
                   SetItem(AfterLookup(@, k), k, GetItem(@, k) + delta)]
    /\ Written(k)
    /\ UNCHANGED <<ret, call>>

\* self[k] = n
SetCount(k, n) ==
    /\ call.op = "none"
    /\ heap' = [heap EXCEPT !["self"].items = SetItem(@, k, n)]
    /\ Written(k)
    /\ UNCHANGED <<ret, call>>

\* del self[k]
Delete(k) ==
    /\ call.op = "none"
    /\ heap' = [heap EXCEPT !["self"].items = DelItem(@, k)]
    /\ seenSinceAbsent' = SelectSeq(seenSinceAbsent, LAMBDA x : x # k)
    /\ UNCHANGED <<ret, call, firstSeen>>

\* ret = copy.copy(self): __reduce__, then the class called on its arguments.
DoReduce ==
    /\ call.op = "none"
    /\ Returns("reduce", [ret |-> Reconstruct(Reduce(heap["self"])),
                          other |-> heap["other"]])

\* ret = eval(repr(self))
DoEvalRepr ==
    /\ call.op = "none"
    /\ Returns("repr", [ret |-> Eval(Repr(heap["self"])), other |-> heap["other"]])

NextOrder ==
    \/ \E k \in Keys, delta \in {0 - 1, 1} : Increment(k, delta)
    \/ \E k \in Keys, n \in Counts : SetCount(k, n)
    \/ \E k \in Keys : Delete(k)
    \/ DoReduce
    \/ DoEvalRepr

SpecOrder == InitOrder /\ [][NextOrder]_vars

(* ------------------------- the operators' contracts -------------------- *)

CounterTypes == {"OrderedCounter", "Counter"}

HasKey(items, k) == \E i \in 1..Len(items) : items[i][1] = k

\* The count of k in items, zero when k is absent.
CountOf(items, k) ==
    IF HasKey(items, k)
    THEN (CHOOSE p \in {items[i] : i \in 1..Len(items)} : p[1] = k)[2]
    ELSE 0

Max(x, y) == IF x >= y THEN x ELSE y

Min(x, y) == IF x <= y THEN x ELSE y

\* The entries with a positive count, in order.
Positive(items) == SelectSeq(items, LAMBDA p : p[2] > 0)

\* The entries of b whose key a lacks, in b's order.
UniqueTo(b, a) == SelectSeq(b, LAMBDA p : ~HasKey(a, p[1]))

ExpectedAdd(a, b) ==
    Positive([i \in 1..Len(a) |-> <<a[i][1], a[i][2] + CountOf(b, a[i][1])>>])
        \o Positive(UniqueTo(b, a))

ExpectedSub(a, b) ==
    LET u == UniqueTo(b, a)
    IN  Positive([i \in 1..Len(a) |-> <<a[i][1], a[i][2] - CountOf(b, a[i][1])>>])
            \o Positive([i \in 1..Len(u) |-> <<u[i][1], 0 - u[i][2]>>])

ExpectedOr(a, b) ==
    Positive([i \in 1..Len(a) |-> <<a[i][1], Max(a[i][2], CountOf(b, a[i][1]))>>])
        \o Positive(UniqueTo(b, a))

ExpectedAnd(a, b) ==
    Positive([i \in 1..Len(a) |-> <<a[i][1], Min(a[i][2], CountOf(b, a[i][1]))>>])

\* The entries of the counter the last call returned.
Result == heap[ret].items

\* The last call was the binary operator op with a counter as operand.
Called(op) == call.op = op /\ call.other.type \in CounterTypes

\* The entries of OrderedCounter(chars).
Of(chars) == Construct(Str(chars)).items

\* C1. Add: a + b holds, first, every key k of a in a's order with the count
\* a[k] + b[k] (b[k] = 0 when b lacks k) iff that sum is positive, then every
\* key of b that a lacks, in b's order, with the count b[k] iff b[k] is
\* positive; it holds nothing else, in no other order.  The docstring's
\* 'abbbd' + 'bcc' is [(a,1),(b,4),(d,1),(c,2)].
C1_AddContract ==
    Called("add") =>
        /\ ret \in DOMAIN heap
        /\ heap[ret].type = "OrderedCounter"
        /\ Result = ExpectedAdd(call.self.items, call.other.items)
        /\ (/\ call.self.items = <<<<"a", 1>>, <<"b", 3>>, <<"d", 1>>>>
            /\ call.other.items = <<<<"b", 1>>, <<"c", 2>>>>)
           => Result = <<<<"a", 1>>, <<"b", 4>>, <<"d", 1>>, <<"c", 2>>>>

\* 'abbbd' + 'bcc' was computed.
C1_Witness ==
    /\ Called("add")
    /\ call.self.items = Of(<<"a", "b", "b", "b", "d">>)
    /\ call.other.items = Of(<<"b", "c", "c">>)
    /\ ret \in DOMAIN heap
    /\ Result = <<<<"a", 1>>, <<"b", 4>>, <<"d", 1>>, <<"c", 2>>>>

\* C2. Subtract: a - b holds, first, every key k of a in a's order with the
\* count a[k] - b[k] iff that difference is positive, then every key of b
\* that a lacks, in b's order, with the count -b[k] iff b[k] is negative;
\* nothing else.  The docstring's 'abbbc' - 'bccd' is [(a,1),(b,2)].
C2_SubContract ==
    Called("sub") =>
        /\ ret \in DOMAIN heap
        /\ heap[ret].type = "OrderedCounter"
        /\ Result = ExpectedSub(call.self.items, call.other.items)
        /\ (/\ call.self.items = <<<<"a", 1>>, <<"b", 3>>, <<"c", 1>>>>
            /\ call.other.items = <<<<"b", 1>>, <<"c", 2>>, <<"d", 1>>>>)
           => Result = <<<<"a", 1>>, <<"b", 2>>>>

\* A difference that drops a key of self, keeps one, and recovers a negative
\* count of a key only other holds while dropping a positive one.
C2_Witness ==
    /\ Called("sub")
    /\ call.self.items = <<<<"a", 2>>, <<"b", 1>>>>
    /\ call.other.items = <<<<"c", 0 - 1>>, <<"b", 1>>, <<"a", 1>>>>
    /\ ret \in DOMAIN heap
    /\ Result = <<<<"a", 1>>, <<"c", 1>>>>

\* C3. Union: a | b holds, first, every key k of a in a's order with the
\* count max(a[k], b[k]) iff that maximum is positive, then every key of b
\* that a lacks, in b's order, with the count b[k] iff b[k] is positive.
\* The docstring's 'abbbd' | 'bcc' is [(a,1),(b,3),(d,1),(c,2)].
C3_OrContract ==
    Called("or") =>
        /\ ret \in DOMAIN heap
        /\ heap[ret].type = "OrderedCounter"
        /\ Result = ExpectedOr(call.self.items, call.other.items)
        /\ (/\ call.self.items = <<<<"a", 1>>, <<"b", 3>>, <<"d", 1>>>>
            /\ call.other.items = <<<<"b", 1>>, <<"c", 2>>>>)
           => Result = <<<<"a", 1>>, <<"b", 3>>, <<"d", 1>>, <<"c", 2>>>>

\* 'abbbd' | 'bcc' was computed.
C3_Witness ==
    /\ Called("or")
    /\ call.self.items = Of(<<"a", "b", "b", "b", "d">>)
    /\ call.other.items = Of(<<"b", "c", "c">>)
    /\ ret \in DOMAIN heap
    /\ Result = <<<<"a", 1>>, <<"b", 3>>, <<"d", 1>>, <<"c", 2>>>>

\* C4. Intersect: a & b holds exactly the keys k of a, in a's order, with
\* min(a[k], b[k]) positive, each with that minimum as its count, whatever
\* the signs of the counts; a key only b holds is never in it.  The
\* docstring's 'abbbc' & 'bcc' is [(b,1),(c,1)].
C4_AndContract ==
    Called("and") =>
        /\ ret \in DOMAIN heap
        /\ heap[ret].type = "OrderedCounter"
        /\ Result = ExpectedAnd(call.self.items, call.other.items)
        /\ \A i \in 1..Len(Result) : HasKey(call.self.items, Result[i][1])
        /\ (/\ call.self.items = <<<<"a", 1>>, <<"b", 3>>, <<"c", 1>>>>
            /\ call.other.items = <<<<"b", 1>>, <<"c", 2>>>>)
           => Result = <<<<"b", 1>>, <<"c", 1>>>>

\* An intersection with negative counts on both sides and a positive key
\* that only other holds.
C4_Witness ==
    /\ Called("and")
    /\ call.self.items = <<<<"a", 0 - 1>>, <<"b", 2>>>>
    /\ call.other.items = <<<<"c", 2>>, <<"b", 1>>, <<"a", 0 - 1>>>>
    /\ ret \in DOMAIN heap
    /\ Result = <<<<"b", 1>>>>

\* C5. SymmetricDifference: a ^ b has the entries, in the order, of
\* Subtract(Union(a, b), Intersect(a, b)).  The docstring's 'abbbc' ^ 'bcc'
\* is [(a,1),(b,2),(c,1)].
C5_XorIsUnionMinusIntersection ==
    Called("xor") =>
        /\ ret \in DOMAIN heap
        /\ heap[ret].type = "OrderedCounter"
        /\ Result = ExpectedSub(ExpectedOr(call.self.items, call.other.items),
                                ExpectedAnd(call.self.items, call.other.items))
        /\ (/\ call.self.items = <<<<"a", 1>>, <<"b", 3>>, <<"c", 1>>>>
            /\ call.other.items = <<<<"b", 1>>, <<"c", 2>>>>)
           => Result = <<<<"a", 1>>, <<"b", 2>>, <<"c", 1>>>>

\* 'abbbc' ^ 'bcc' was computed.
C5_Witness ==
    /\ Called("xor")
    /\ call.self.items = Of(<<"a", "b", "b", "b", "c">>)
    /\ call.other.items = Of(<<"b", "c", "c">>)
    /\ ret \in DOMAIN heap
    /\ Result = <<<<"a", 1>>, <<"b", 2>>, <<"c", 1>>>>

\* C8. Type mismatch: a binary operator returns NotImplemented exactly when
\* its operand is no Counter, and then it builds no instance and leaves
\* self and the operand as they were.
C8_NotImplementedIffNotCounter ==
    call.op \in BinaryOps =>
        IF call.other.type \in CounterTypes
        THEN /\ ret # "NotImplemented"
             /\ ret \in DOMAIN heap
             /\ heap[ret].type = "OrderedCounter"
        ELSE /\ ret = "NotImplemented"
             /\ DOMAIN heap = {"self", "other"}
             /\ heap["self"] = call.self
             /\ heap["other"] = call.other

\* self ^ other was called with a dict holding entries, on a counter
\* holding entries.
C8_Witness ==
    /\ call.op = "xor"
    /\ call.other = Object("dict", <<<<"a", 1>>, <<"c", 2>>>>)
    /\ call.self.items = <<<<"a", 2>>, <<"c", 1>>>>
    /\ ret = "NotImplemented"

NonNegative(items) == \A i \in 1..Len(items) : items[i][2] >= 0

\* Equality of content: the same (key, count) pairs, in any order.
SameContent(x, y) == {x[i] : i \in 1..Len(x)} = {y[i] : i \in 1..Len(y)}

\* Add(Intersect(a, b), SymmetricDifference(a, b)) for the last call's operands.
IntersectionPlusDifference ==
    Add(And(call.self, call.other).ret, Xor(call.self, call.other).ret).ret.items

\* C10. Union/Intersect complementarity: when no count of a or b is
\* negative, Union(a, b) and Add(Intersect(a, b), SymmetricDifference(a, b))
\* hold the same (key, count) pairs.
C10_UnionIsIntersectionPlusDifference ==
    (Called("or") /\ NonNegative(call.self.items) /\ NonNegative(call.other.items)) =>
        /\ ret \in DOMAIN heap
        /\ SameContent(Result, IntersectionPlusDifference)

\* 'abbbc' | 'bcc': the two sides hold the same pairs in different orders.
C10_Witness ==
    /\ Called("or")
    /\ call.self.items = Of(<<"a", "b", "b", "b", "c">>)
    /\ call.other.items = Of(<<"b", "c", "c">>)
    /\ ret \in DOMAIN heap
    /\ Result = <<<<"a", 1>>, <<"b", 3>>, <<"c", 2>>>>
    /\ IntersectionPlusDifference = <<<<"b", 3>>, <<"c", 2>>, <<"a", 1>>>>

(* ------------------------------ ordering ------------------------------- *)

\* C6 as stated. Order preservation: after any construction and any
\* increments, assignments and deletions, self iterates its keys in the
\* order in which the distinct keys were first seen.
C6_OrderIsFirstSeenOrder ==
    KeysOf(heap["self"].items)
        = SelectSeq(firstSeen, LAMBDA k : HasKey(heap["self"].items, k))

\* C6 amended. Order preservation: self iterates its keys in the order in
\* which they were first written since they were last absent: a key that is
\* absent (never seen, or deleted) is appended at the end at its next write,
\* and changing the count of a present key never moves it.
C6_OrderIsFirstSeenSinceAbsent ==
    KeysOf(heap["self"].items) = seenSinceAbsent

\* A key was deleted and written again, and now follows a key seen after it.
C6_Witness ==
    /\ firstSeen = <<"a", "b", "c">>
    /\ seenSinceAbsent = <<"b", "c", "a">>
    /\ heap["self"].items = <<<<"b", 2>>, <<"c", 0>>, <<"a", 1>>>>

(* ------------------------------ round trip ----------------------------- *)

\* C9. Round trip: the instance constructed from the ordered (key, count)
\* pairs of a counter, as __reduce__ and __repr__ hand them over, holds the
\* same pairs in the same order, zero and negative counts included.
C9_RoundTrip ==
    call.op \in {"reduce", "repr"} =>
        /\ ret \in DOMAIN heap
        /\ ret # "self"
        /\ heap[ret] = call.self
        /\ heap["self"] = call.self

\* A counter with a negative, a zero and a positive count, its keys out of
\* alphabetical order, went through __reduce__.
C9_Witness ==
    /\ call.op = "reduce"
    /\ call.self.items = <<<<"c", 0 - 1>>, <<"a", 0>>, <<"b", 2>>>>
    /\ ret \in DOMAIN heap
    /\ Result = <<<<"c", 0 - 1>>, <<"a", 0>>, <<"b", 2>>>>

(* ------------------------------ non-mutation --------------------------- *)

\* C7. Non-mutation: an operator (+ - | & ^, unary + and -) leaves self and
\* its operand as they were, keys, counts and order (a lookup of a key the
\* operand lacks adds no entry to it), and returns an instance that is
\* neither of them: writing to it afterwards changes neither.
C7_OperandsUnchanged ==
    call.op \in BinaryOps \cup UnaryOps =>
        /\ heap["self"] = call.self
        /\ heap["other"] = call.other
        /\ ret \in DOMAIN heap => ret \notin {"self", "other"}

\* self + other looked up in other a key it lacks, and the sum was written
\* to afterwards.
C7_Witness ==
    /\ call.op = "add"
    /\ call.resultMutated
    /\ call.self.items = <<<<"a", 1>>, <<"b", 2>>>>
    /\ call.other.items = <<<<"b", 1>>>>
    /\ heap["self"] = call.self
    /\ heap["other"] = call.other
    /\ Result = <<<<"a", 2>>, <<"b", 3>>>>

====
